---- MODULE Spec2Model ----
(***************************************************************************)
(* Model of vix/json jpath.hpp: the JPath tokenizer, the read-only jget,   *)
(* the auto-vivifying jget and jset, over nlohmann-style JSON values.      *)
(*                                                                         *)
(* A path is a sequence of one-character strings.  C++ positions are kept  *)
(* 0-based: CharAt(s, i) is s[i] of the source.                            *)
(***************************************************************************)
EXTENDS Integers, Sequences, FiniteSets, TLC

(***************************************************************************)
(* Bounds of the model.                                                    *)
(***************************************************************************)
\* Largest value of unsigned long long / std::size_t, scaled down.
ULLMax == 15
\* std::vector<Json>::max_size(), scaled down (it is below SIZE_MAX).
VecMaxSize == 4
\* Most pieces (keys, separators, brackets) in a path.
MaxSegs == 3
\* SIZE_MAX of a target whose std::size_t is narrower than unsigned long
\* long (the 32-bit targets), scaled down.
SizeMax32 == 7
\* Longest path made of arbitrary characters of TokAlphabet.
MaxTokLen == 4

(***************************************************************************)
(* The target the program was built for: size_max is its SIZE_MAX.         *)
(* std::size_t is as wide as unsigned long long on the LP64 targets and    *)
(* narrower on the 32-bit ones.                                            *)
(***************************************************************************)
VARIABLE size_max

SizeMax == size_max

(***************************************************************************)
(* Characters.                                                             *)
(***************************************************************************)
Digits == {"0", "1", "2", "3", "4", "5", "6", "7", "8", "9"}

DigitVal(c) ==
    CASE c = "0" -> 0 [] c = "1" -> 1 [] c = "2" -> 2 [] c = "3" -> 3
      [] c = "4" -> 4 [] c = "5" -> 5 [] c = "6" -> 6 [] c = "7" -> 7
      [] c = "8" -> 8 [] c = "9" -> 9

\* std::isspace in the "C" locale, restricted to the characters of the model.
IsSpace(c) == c \in {" ", "\t"}

CharAt(s, i) == s[i + 1]

\* s.substr(from, to - from): the characters at 0-based positions from..to-1.
Slice(s, from, to) == [k \in 1..(to - from) |-> s[from + k]]

(***************************************************************************)
(* detail::skip_spaces: the first position >= i that holds no whitespace.  *)
(***************************************************************************)
RECURSIVE skip_spaces(_, _)
skip_spaces(s, i) ==
    IF i < Len(s) /\ IsSpace(CharAt(s, i)) THEN skip_spaces(s, i + 1) ELSE i

(***************************************************************************)
(* std::from_chars(first, last, tmp, 10) for unsigned long long: consumes  *)
(* the longest run of digits from position i; no digit is an error, a      *)
(* value above ULLMax is an error (result_out_of_range).                   *)
(***************************************************************************)
RECURSIVE DigitsEnd(_, _)
DigitsEnd(s, i) ==
    IF i < Len(s) /\ CharAt(s, i) \in Digits THEN DigitsEnd(s, i + 1) ELSE i

RECURSIVE DecimalValue(_, _, _, _)
DecimalValue(s, i, end, acc) ==
    IF i >= end THEN acc
    ELSE DecimalValue(s, i + 1, end, acc * 10 + DigitVal(CharAt(s, i)))

from_chars(s, i) ==
    LET end == DigitsEnd(s, i)
        v   == DecimalValue(s, i, end, 0)
    IN  IF end = i THEN [ok |-> FALSE, ptr |-> i, value |-> 0]
        ELSE IF v > ULLMax THEN [ok |-> FALSE, ptr |-> end, value |-> 0]
        ELSE [ok |-> TRUE, ptr |-> end, value |-> v]

(***************************************************************************)
(* detail::parse_index: the body of an index bracket.                      *)
(***************************************************************************)
parse_index_prefix(s) ==
    LET n == Len(s)
        i == skip_spaces(s, 0)
    IN  IF i >= n THEN [ok |-> FALSE, out |-> 0]
        ELSE IF CharAt(s, i) \in {"+", "-"} THEN [ok |-> FALSE, out |-> 0]
        ELSE LET r == from_chars(s, i)
             IN  IF ~r.ok THEN [ok |-> FALSE, out |-> 0]
                 ELSE [ok |-> TRUE, out |-> r.value % (SizeMax + 1)]

parse_index(s) ==
    LET n == Len(s)
        i == skip_spaces(s, 0)
    IN  IF i >= n THEN [ok |-> FALSE, out |-> 0]
        ELSE IF CharAt(s, i) \in {"+", "-"} THEN [ok |-> FALSE, out |-> 0]
        ELSE LET r == from_chars(s, i)
             IN  IF ~r.ok THEN [ok |-> FALSE, out |-> 0]
                 ELSE IF skip_spaces(s, r.ptr) # n THEN [ok |-> FALSE, out |-> 0]
                 ELSE [ok |-> TRUE, out |-> r.value % (SizeMax + 1)]

(***************************************************************************)
(* detail::parse_bracket_string_key.  QuotedLoop is the while loop that    *)
(* copies the key: it returns the position after the loop, the key, and    *)
(* whether it stopped on a dangling escape.                                *)
(***************************************************************************)
RECURSIVE QuotedLoopNoEscape(_, _, _)
QuotedLoopNoEscape(path, i, key) ==
    IF i >= Len(path) THEN [i |-> i, key |-> key, dangling |-> FALSE]
    ELSE LET ch == CharAt(path, i)
         IN  IF ch = "\""
             THEN [i |-> i + 1, key |-> key, dangling |-> FALSE]
             ELSE QuotedLoopNoEscape(path, i + 1, Append(key, ch))

RECURSIVE QuotedLoop(_, _, _)
QuotedLoop(path, i, key) ==
    IF i >= Len(path) THEN [i |-> i, key |-> key, dangling |-> FALSE]
    ELSE LET ch == CharAt(path, i)
         IN  IF ch = "\\"
             THEN IF i + 1 >= Len(path)
                  THEN [i |-> i + 1, key |-> key, dangling |-> TRUE]
                  ELSE QuotedLoop(path, i + 2, Append(key, CharAt(path, i + 1)))
             ELSE IF ch = "\""
             THEN [i |-> i + 1, key |-> key, dangling |-> FALSE]
             ELSE QuotedLoop(path, i + 1, Append(key, ch))

parse_bracket_string_key_open(path, i0) ==
    LET n  == Len(path)
        i1 == skip_spaces(path, i0 + 1)
        Fail(msg) == [ok |-> FALSE, i |-> i0, key |-> <<>>, err |-> msg]
    IN  IF i1 >= n \/ CharAt(path, i1) # "\""
        THEN Fail("expected quote after [ for quoted key")
        ELSE LET r == QuotedLoop(path, i1 + 1, <<>>)
             IN  IF r.dangling THEN Fail("dangling escape in quoted key")
                 ELSE IF r.i > n \/ CharAt(path, r.i - 1) # "\""
                 THEN Fail("missing closing quote in quoted key")
                 ELSE LET i2 == skip_spaces(path, r.i)
                      IN  IF i2 >= n \/ CharAt(path, i2) # "]"
                          THEN [ok |-> TRUE, i |-> i2, key |-> r.key, err |-> ""]
                          ELSE [ok |-> TRUE, i |-> i2 + 1, key |-> r.key, err |-> ""]

parse_bracket_string_key(path, i0) ==
    LET n  == Len(path)
        i1 == skip_spaces(path, i0 + 1)
        Fail(msg) == [ok |-> FALSE, i |-> i0, key |-> <<>>, err |-> msg]
    IN  IF i1 >= n \/ CharAt(path, i1) # "\""
        THEN Fail("expected quote after [ for quoted key")
        ELSE LET r == QuotedLoop(path, i1 + 1, <<>>)
             IN  IF r.dangling THEN Fail("dangling escape in quoted key")
                 ELSE IF r.i > n \/ CharAt(path, r.i - 1) # "\""
                 THEN Fail("missing closing quote in quoted key")
                 ELSE LET i2 == skip_spaces(path, r.i)
                      IN  IF i2 >= n \/ CharAt(path, i2) # "]"
                          THEN Fail("missing ] after quoted key")
                          ELSE [ok |-> TRUE, i |-> i2 + 1, key |-> r.key, err |-> ""]

(***************************************************************************)
(* Tokens.  A Key token carries index = (size_t)-1, an Index token an      *)
(* empty key.                                                              *)
(***************************************************************************)
KeyToken(k) == [kind |-> "Key", key |-> k, index |-> SizeMax]
IndexToken(n) == [kind |-> "Index", key |-> <<>>, index |-> n]

\* The position of the first ']' at or after i, or Len(path) if there is none.
RECURSIVE FindClose(_, _)
FindClose(path, i) ==
    IF i < Len(path) /\ CharAt(path, i) # "]" THEN FindClose(path, i + 1) ELSE i

\* The test that ends the scan for ']': the end of the path was reached.
UnterminatedOffByOne(close, n) == close > n

Unterminated(close, n) == close >= n

\* Pushing the pending bare key, if there is one, as a Key token.
FlushKeyDropped(cur, out) == out

FlushKeyAlways(cur, out) == Append(out, KeyToken(cur))

FlushKey(cur, out) == IF cur # <<>> THEN Append(out, KeyToken(cur)) ELSE out

PushCharSkipBlank(cur, ch) == IF IsSpace(ch) THEN cur ELSE Append(cur, ch)

\* cur.push_back(ch): any other character joins the pending bare key.
PushChar(cur, ch) == Append(cur, ch)

\* The '.' branch of the tokenizer loop: flush_key must have a key to flush.
DotAlwaysAccepted(cur) == TRUE

DotAccepted(cur) == cur # <<>>

(***************************************************************************)
(* detail::tokenize_path_nothrow: the while loop, then the final flush.    *)
(***************************************************************************)
RECURSIVE TokLoop(_, _, _, _)
TokLoop(path, i, cur, out) ==
    LET n == Len(path)
        \* On failure the out vector keeps the tokens pushed so far.
        Fail(msg, o) == [ok |-> FALSE, toks |-> o, err |-> msg]
        flushed == FlushKey(cur, out)
    IN  IF i >= n THEN [ok |-> TRUE, toks |-> flushed, err |-> ""]
        ELSE LET ch == CharAt(path, i)
             IN  IF ch = "."
                 THEN IF ~DotAccepted(cur) THEN Fail("empty key segment", out)
                      ELSE TokLoop(path, i + 1, <<>>, flushed)
                 ELSE IF ch = "["
                 THEN LET look == skip_spaces(path, i + 1)
                      IN  IF look < n /\ CharAt(path, look) = "\""
                          THEN LET r == parse_bracket_string_key(path, i)
                               IN  IF ~r.ok THEN Fail(r.err, flushed)
                                   ELSE TokLoop(path, r.i, <<>>,
                                                Append(flushed, KeyToken(r.key)))
                          ELSE LET start == i + 1
                                   close == FindClose(path, start)
                               IN  IF Unterminated(close, n)
                                   THEN Fail("missing closing ]", flushed)
                                   ELSE LET p == parse_index(Slice(path, start, close))
                                        IN  IF ~p.ok
                                            THEN Fail("bad array index inside []", flushed)
                                            ELSE TokLoop(path, close + 1, <<>>,
                                                         Append(flushed, IndexToken(p.out)))
                 ELSE TokLoop(path, i + 1, PushChar(cur, ch), out)

tokenize_path_nothrow_nonempty(path) ==
    IF path = <<>> THEN [ok |-> FALSE, toks |-> <<>>, err |-> "empty path"]
    ELSE TokLoop(path, 0, <<>>, <<>>)

tokenize_path_nothrow(path) == TokLoop(path, 0, <<>>, <<>>)

(***************************************************************************)
(* JSON values (nlohmann::json): a node is null, a number, a string, an    *)
(* array (a sequence of nodes) or an object (a function from keys to       *)
(* nodes; std::map keeps one member per key).                              *)
(***************************************************************************)
Null == [t |-> "null"]
Num(n) == [t |-> "number", n |-> n]
Str(x) == [t |-> "string", s |-> x]
Arr(a) == [t |-> "array", a |-> a]
Obj(o) == [t |-> "object", o |-> o]

EmptyObject == Obj(<<>>)
EmptyArray == Arr(<<>>)

is_object(node) == node.t = "object"
is_array(node) == node.t = "array"

\* A one-member object, and an object extended or overwritten at key k.
Member(k, v) == [x \in {k} |-> v]
WithMember(o, k, v) == [x \in (DOMAIN o) \cup {k} |-> IF x = k THEN v ELSE o[x]]

(***************************************************************************)
(* A pointer into the tree is the sequence of tokens that leads from the   *)
(* root to the node.  NodeAt dereferences it, ReplaceAt assigns through    *)
(* it.                                                                     *)
(***************************************************************************)
Child(node, t) ==
    IF t.kind = "Key" THEN node.o[t.key] ELSE node.a[t.index + 1]

RECURSIVE NodeAt(_, _)
NodeAt(j, loc) ==
    IF loc = <<>> THEN j ELSE NodeAt(Child(j, Head(loc)), Tail(loc))

RECURSIVE ReplaceAt(_, _, _)
ReplaceAt(j, loc, new) ==
    IF loc = <<>> THEN new
    ELSE LET t == Head(loc)
             sub == ReplaceAt(Child(j, t), Tail(loc), new)
         IN  IF t.kind = "Key"
             THEN Obj([j.o EXCEPT ![t.key] = sub])
             ELSE Arr([j.a EXCEPT ![t.index + 1] = sub])

(***************************************************************************)
(* jget(const Json &, path): the read-only traversal.                      *)
(***************************************************************************)
\* cur->find(t.key) != cur->end()
HasKey(node, key) == key \in DOMAIN node.o

\* Variant: the bound test off by one (index + 1 >= size rejected).
IndexInRangeStrict(node, index) == index + 1 < Len(node.a)

\* !(t.index >= cur->size()) on an array
IndexInRange(node, index) == index < Len(node.a)

\* One iteration of the loop: may the cursor advance through token t?
ConstStepOk(node, t) ==
    IF t.kind = "Key"
    THEN is_object(node) /\ HasKey(node, t.key)
    ELSE is_array(node) /\ IndexInRange(node, t.index)

NullPtr == [status |-> "nullptr", loc |-> <<>>]
NodePtr(loc) == [status |-> "node", loc |-> loc]
Thrown == [status |-> "throw", loc |-> <<>>]

RECURSIVE ConstLoop(_, _, _)
ConstLoop(j, cur, toks) ==
    IF toks = <<>> THEN NodePtr(cur)
    ELSE IF ~ConstStepOk(NodeAt(j, cur), Head(toks)) THEN NullPtr
    ELSE ConstLoop(j, Append(cur, Head(toks)), Tail(toks))

jget_const(j, path) ==
    LET tk == tokenize_path_nothrow(path)
    IN  IF ~tk.ok THEN NullPtr ELSE ConstLoop(j, <<>>, tk.toks)

(***************************************************************************)
(* jget(Json &, path): the auto-vivifying traversal.                       *)
(***************************************************************************)
\* if (!cur->is_object()) *cur = Json::object();
RepairObjectAlways(node) == EmptyObject

RepairObject(node) == IF is_object(node) THEN node ELSE EmptyObject

\* Variant: an absent member is inserted as an empty object.
InsertKeyAsObject(node, key) ==
    IF key \in DOMAIN node.o THEN node
    ELSE Obj([x \in (DOMAIN node.o) \cup {key} |->
                 IF x = key THEN EmptyObject ELSE node.o[x]])

\* (*cur)[t.key] on an object: the member is inserted as null when absent.
InsertKey(node, key) ==
    IF HasKey(node, key) THEN node ELSE Obj(WithMember(node.o, key, Null))

KeyStep(node, key) == InsertKey(RepairObject(node), key)

\* Variant: a node that is not an array is wrapped instead of discarded.
RepairArrayWrap(node) == IF is_array(node) THEN node ELSE Arr(<<node>>)

\* if (!cur->is_array()) *cur = Json::array();
RepairArray(node) == IF is_array(node) THEN node ELSE EmptyArray

\* Variant: resize(index + 1) instead of the growth loop (it can truncate).
GrowResize(a, index) ==
    IF index + 1 > VecMaxSize THEN [a |-> a, thrown |-> TRUE]
    ELSE [a |-> [k \in 1..(index + 1) |-> IF k <= Len(a) THEN a[k] ELSE Null],
          thrown |-> FALSE]

\* Variant: a do-while loop, which pushes once before it tests the size.
GrowDoWhile(a, index) ==
    LET target == IF Len(a) + 1 >= index + 1 THEN Len(a) + 1 ELSE index + 1
        reached == IF target > VecMaxSize THEN VecMaxSize ELSE target
    IN  [a |-> [k \in 1..(IF reached >= Len(a) THEN reached ELSE Len(a)) |->
                   IF k <= Len(a) THEN a[k] ELSE Null],
         thrown |-> target > VecMaxSize]

\* Variant: the array is rebuilt from nulls.
GrowFresh(a, index) ==
    IF Len(a) <= index /\ index + 1 > VecMaxSize THEN [a |-> a, thrown |-> TRUE]
    ELSE [a |-> [k \in 1..(IF Len(a) > index THEN Len(a) ELSE index + 1) |-> Null],
          thrown |-> FALSE]

\* while (cur->size() <= t.index) cur->push_back(nullptr);
\* push_back on a vector that holds max_size() elements throws length_error.
RECURSIVE Grow(_, _)
Grow(a, index) ==
    IF ~(Len(a) <= index) THEN [a |-> a, thrown |-> FALSE]
    ELSE IF Len(a) >= VecMaxSize THEN [a |-> a, thrown |-> TRUE]
    ELSE Grow(Append(a, Null), index)

IndexStep(node, index) ==
    LET g == Grow(RepairArray(node).a, index)
    IN  [node |-> Arr(g.a), thrown |-> g.thrown]

\* One iteration of the loop on the node under the cursor.
MutStep(node, t) ==
    IF t.kind = "Key"
    THEN [node |-> KeyStep(node, t.key), thrown |-> FALSE]
    ELSE IndexStep(node, t.index)

\* The loop.  log records, for each iteration, the node under the cursor
\* before the step, the token, and the node the step left there.
RECURSIVE MutLoop(_, _, _, _)
MutLoop(j, cur, toks, log) ==
    IF toks = <<>>
    THEN [j |-> j, ret |-> NodePtr(cur), log |-> log]
    ELSE LET t == Head(toks)
             before == NodeAt(j, cur)
             st == MutStep(before, t)
             j2 == ReplaceAt(j, cur, st.node)
             log2 == Append(log, [before |-> before, tok |-> t,
                                  after |-> st.node, thrown |-> st.thrown])
         IN  IF st.thrown THEN [j |-> j2, ret |-> Thrown, log |-> log2]
             ELSE MutLoop(j2, Append(cur, t), Tail(toks), log2)

\* Variant: the tokens parsed before a syntax error are traversed.
jget_mutable_eager(j, path) ==
    LET tk == tokenize_path_nothrow(path)
    IN  IF ~tk.ok THEN [j |-> MutLoop(j, <<>>, tk.toks, <<>>).j, ret |-> Thrown, log |-> <<>>]
        ELSE MutLoop(j, <<>>, tk.toks, <<>>)

jget_mutable(j, path) ==
    LET tk == tokenize_path_nothrow(path)
    IN  IF ~tk.ok THEN [j |-> j, ret |-> Thrown, log |-> <<>>]
        ELSE MutLoop(j, <<>>, tk.toks, <<>>)

(***************************************************************************)
(* jset: *jget(j, path) = v inside try / catch (...).                      *)
(***************************************************************************)
\* Variant: the value is assigned to a copy, not through the pointer.
AssignDropped(j, loc, v) == j

Assign(j, loc, v) == ReplaceAt(j, loc, v)

jset(j, path, v) ==
    LET r == jget_mutable(j, path)
    IN  IF r.ret.status = "throw"
        THEN [j |-> r.j, ret |-> FALSE, loc |-> <<>>, log |-> r.log]
        ELSE [j |-> Assign(r.j, r.ret.loc, v), ret |-> TRUE,
              loc |-> r.ret.loc, log |-> r.log]

(***************************************************************************)
(* Overload resolution of jget(j, path): a const argument binds to the     *)
(* read-only overload, a non-const lvalue to the mutable one.              *)
(***************************************************************************)
\* Variant: every call binds to the mutable overload.
JgetOverloadMutable(argIsConst) == "mutable"

JgetOverload(argIsConst) == IF argIsConst THEN "const" ELSE "mutable"

JgetCall(argIsConst, j, path) ==
    IF JgetOverload(argIsConst) = "const"
    THEN [j |-> j, ret |-> jget_const(j, path), log |-> <<>>]
    ELSE jget_mutable(j, path)

(***************************************************************************)
(* Inputs: the caller's tree, the path string and the value to set.        *)
(***************************************************************************)
Pieces ==
    { <<"a">>, <<".", "b">>, <<"[">>,
      <<"[", "0", "]">>, <<"[", "2", "]">>, <<"[", "1", "5", "]">>,
      <<"[", "\"", "a", ".", "b", "\"", "]">> }

RECURSIVE Concats(_, _)
Concats(parts, n) ==
    IF n = 0 THEN {<<>>}
    ELSE LET shorter == Concats(parts, n - 1)
         IN  shorter \cup {p \o q : p \in shorter, q \in parts}

\* The paths of the documentation: users[0].email, ["complex.key"].value,
\* user.roles[1], settings.theme.
DocPaths ==
    { <<"u", "s", "e", "r", "s", "[", "0", "]", ".", "e", "m", "a", "i", "l">>,
      <<"[", "\"", "c", "o", "m", "p", "l", "e", "x", ".", "k", "e", "y", "\"", "]",
        ".", "v", "a", "l", "u", "e">>,
      <<"u", "s", "e", "r", ".", "r", "o", "l", "e", "s", "[", "1", "]">>,
      <<"s", "e", "t", "t", "i", "n", "g", "s", ".", "t", "h", "e", "m", "e">> }

Paths == Concats(Pieces, MaxSegs) \cup DocPaths

kA == <<"a">>
kB == <<"b">>
kAB == <<"a", ".", "b">>

InitTrees ==
    { EmptyObject,
      Obj(Member(kA, Num(5))),
      Obj(Member(kA, Arr(<<Num(1), Num(2)>>))),
      Obj(WithMember(Member(kA, Arr(<<Obj(Member(kB, Num(1)))>>)), kB, Str("x"))),
      Obj(Member(kAB, Obj(Member(kB, Num(1))))),
      Arr(<<Arr(<<Num(1)>>), Obj(Member(kA, Num(2)))>>) }

Values == {Num(1), Str("x")}

(***************************************************************************)
(* State: the caller's tree (root), the tree before the last call (pre),   *)
(* the path the caller uses, and the last call: its name (op), the value   *)
(* it was given (val), what it returned (ret) and the iterations of the    *)
(* write traversal it ran (log).                                           *)
(***************************************************************************)
VARIABLES root, pre, path, op, val, ret, log

(***************************************************************************)
(* The files of a dump_file call: the destination, the temp file next to   *)
(* it, the document the destination held before the call, the position of  *)
(* the call and its two error codes.                                       *)
(***************************************************************************)
VARIABLES dest, tmp, prev, pc, ec, ec2

dumpVars == <<dest, tmp, prev, pc, ec, ec2>>

(***************************************************************************)
(* The containers of Simple.hpp: the flat storage of a kvs, the elements   *)
(* of an array_t, the container before the last call, the call and its     *)
(* result.                                                                 *)
(***************************************************************************)
VARIABLES flat, elems, spre, sop, sret

simpleVars == <<flat, elems, spre, sop, sret>>

vars ==
    <<root, pre, path, op, val, ret, log, size_max, dest, tmp, prev, pc, ec, ec2,
      flat, elems, spre, sop, sret>>

NoCall == [name |-> "none", key |-> <<>>, value |-> Null, idx |-> 0]

\* No kvs or array_t is in use.
SimpleIdle ==
    /\ flat = <<>>
    /\ elems = <<>>
    /\ spre = <<>>
    /\ sop = NoCall
    /\ sret = [status |-> "none"]

NoFile == [state |-> "absent"]
\* A file holding the text of doc, all of it or only a part.
File(doc, complete) == [state |-> "file", doc |-> doc, complete |-> complete]

\* No dump_file call is under way.
DumpIdle ==
    /\ dest = NoFile
    /\ tmp = NoFile
    /\ prev = NoFile
    /\ pc = "idle"
    /\ ec = FALSE
    /\ ec2 = FALSE

Init ==
    /\ root \in InitTrees
    /\ pre = root
    /\ path \in Paths
    /\ op = "init"
    /\ val = Null
    /\ ret = [status |-> "none", loc |-> <<>>]
    /\ log = <<>>
    /\ size_max = ULLMax
    /\ DumpIdle
    /\ SimpleIdle

\* tokenize_path(path): the tokens, or std::runtime_error.
Tokenize ==
    LET tk == tokenize_path_nothrow(path)
    IN  /\ op' = "tokenize_path"
        /\ ret' = IF tk.ok THEN [status |-> "tokens", loc |-> <<>>, toks |-> tk.toks]
                  ELSE [status |-> "throw", loc |-> <<>>, err |-> tk.err]
        /\ pre' = root
        /\ log' = <<>>
        /\ UNCHANGED <<root, path, val, size_max>>
        /\ UNCHANGED dumpVars
        /\ UNCHANGED simpleVars

\* A call written jget(j, path); argIsConst tells whether j is const.  The
\* read-only overload returns a pointer and cannot touch j; the mutable one
\* is the write traversal (get_or_create).
Jget(argIsConst) ==
    LET r == JgetCall(argIsConst, root, path)
    IN  /\ op' = (IF argIsConst THEN "jget_const" ELSE "jget_nonconst")
        /\ ret' = r.ret
        /\ root' = r.j
        /\ pre' = root
        /\ log' = r.log
        /\ UNCHANGED <<path, val, size_max>>
        /\ UNCHANGED dumpVars
        /\ UNCHANGED simpleVars

\* jset(j, path, v).
Jset(v) ==
    LET r == jset(root, path, v)
    IN  /\ op' = "jset"
        /\ ret' = [status |-> IF r.ret THEN "true" ELSE "false", loc |-> r.loc]
        /\ root' = r.j
        /\ pre' = root
        /\ val' = v
        /\ log' = r.log
        /\ UNCHANGED <<path, size_max>>
        /\ UNCHANGED dumpVars
        /\ UNCHANGED simpleVars

Next ==
    \/ Tokenize
    \/ \E c \in BOOLEAN : Jget(c)
    \/ \E v \in Values : Jset(v)

Spec == Init /\ [][Next]_vars

(***************************************************************************)
(* The tokenizer alone: tokenize_path on a wider set of paths, on a target *)
(* of either width.                                                        *)
(***************************************************************************)
TokAlphabet == {"a", ".", "[", "]", "1", "\"", " ", "\\", "+", "-"}

RawPaths == Concats({<<c>> : c \in TokAlphabet}, MaxTokLen)

DigitChar(d) ==
    CASE d = 0 -> "0" [] d = 1 -> "1" [] d = 2 -> "2" [] d = 3 -> "3"
      [] d = 4 -> "4" [] d = 5 -> "5" [] d = 6 -> "6" [] d = 7 -> "7"
      [] d = 8 -> "8" [] d = 9 -> "9"

\* The decimal numeral of n, as std::to_string writes it.
RECURSIVE Dec(_)
Dec(n) == IF n < 10 THEN <<DigitChar(n)>> ELSE Append(Dec(n \div 10), DigitChar(n % 10))

\* Index values around the limits of the two integer types.
IndexValues == {0, 1, SizeMax32, SizeMax32 + 1, ULLMax, ULLMax + 1}

Blanks == {<<>>, <<" ">>, <<"\t", " ">>}

\* Index brackets: an optional key, then '[', blanks, a numeral, blanks, ']'.
NumeralPaths ==
    { x[1] \o <<"[">> \o x[2] \o x[3] \o x[4] \o <<"]">> :
        x \in {<<>>, <<"a">>} \X Blanks \X ({Dec(n) : n \in IndexValues} \cup {<<"0", "1">>})
               \X Blanks }

\* Bare keys: no '.' and no '[' in them.
BareKeys == {<<"a">>, <<"b", "c">>, <<" ", "k">>, <<"x", "]">>, <<"\"">>, <<"\\">>, <<"0">>}

RECURSIVE JoinDots(_)
JoinDots(ks) ==
    IF Len(ks) = 1 THEN ks[1] ELSE ks[1] \o <<".">> \o JoinDots(Tail(ks))

RECURSIVE KeySeqs(_)
KeySeqs(n) ==
    IF n = 1 THEN {<<k>> : k \in BareKeys}
    ELSE LET shorter == KeySeqs(n - 1)
         IN  shorter \cup {Append(ks, k) : ks \in shorter, k \in BareKeys}

\* Dotted keys followed by an index: k1.k2. ... .kn[i].
KeyIndexPaths ==
    { JoinDots(x[1]) \o <<"[">> \o Dec(x[2]) \o <<"]">> :
        x \in KeySeqs(MaxSegs - 1) \X {0, 1, SizeMax32, ULLMax} }

\* What may stand between the quotes of a quoted key, as <<text, character
\* it stands for>>: a character other than '"' and '\', or a backslash
\* followed by a character.
QuotedUnits ==
    {<<<<c>>, c>> : c \in {"a", ".", "[", "]", " "}}
    \cup {<<<<"\\", c>>, c>> : c \in {"\"", "\\", "a", "."}}

\* Quoted keys of up to two units, as <<text, key it stands for>>.
QuotedKeys ==
    {<<<<>>, <<>>>>}
    \cup {<<u[1], <<u[2]>>>> : u \in QuotedUnits}
    \cup {<<x[1][1] \o x[2][1], <<x[1][2], x[2][2]>>>> : x \in QuotedUnits \X QuotedUnits}

\* A quoted-key bracket, alone or after the bare key a: the path and the key
\* its quoted text stands for.
QuotedCases ==
    { [path |-> x[1] \o <<"[">> \o x[2] \o <<"\"">> \o x[3][1] \o <<"\"">> \o x[4] \o <<"]">>,
       head |-> x[1], key |-> x[3][2]] :
        x \in {<<>>, <<"a">>} \X Blanks \X QuotedKeys \X Blanks }

QuotedPaths == {c.path : c \in QuotedCases}

\* Index brackets whose body is not a numeral.
BadBodies ==
    { <<"1", " ", "1">>, <<"0", "x", "1">>, <<"a", "a", "a">>, <<"1", "a">>,
      <<" ", "\t">>, <<" ", "+", "1">>, <<"-", "1", " ">>, <<"1", ".", "1">> }

BadIndexPaths == {x[1] \o <<"[">> \o x[2] \o <<"]">> : x \in {<<>>, <<"a">>} \X BadBodies}

\* A quoted-key bracket up to the end of its key text, the closing quote not
\* yet written.
QuotedOpenings ==
    { x[1] \o <<"[">> \o x[2] \o <<"\"">> \o x[3][1] :
        x \in {<<>>, <<"a">>} \X Blanks \X QuotedKeys }

\* What may follow the closing quote instead of blanks and ']'.
BadClosings == {<<>>, <<" ">>, <<"a", "]">>, <<" ", ".", "a">>, <<"\"", "]">>}

\* Malformed quoted keys: a dangling backslash, no closing quote, no ']'
\* after the closing quote.
DanglingEscapePaths == {o \o <<"\\">> : o \in QuotedOpenings}

UnclosedQuotePaths == QuotedOpenings

MissingBracketPaths == {x[1] \o <<"\"">> \o x[2] : x \in QuotedOpenings \X BadClosings}

QuotedErrorPaths == DanglingEscapePaths \cup UnclosedQuotePaths \cup MissingBracketPaths

\* Paths with blanks outside brackets.
BlankPaths ==
    { <<"a", " ", "b", ".", " ", "c">>, <<" ">>, <<"\t", " ">>, <<" ", "a", "\t">>,
      <<"a", " ", ".", "\t", "b">>, <<"a", " ", "[", "1", "]">>, <<" ", "[", " ", "1", " ", "]", " ">>,
      <<"a", "[", "\"", "b", "\"", "]", " ">> }

\* Dots after a complete quoted-key bracket.
DotTails == {<<".">>, <<".", ".">>, <<".", ".", "a">>}

QuotedThenDots == {x[1] \o x[2] : x \in QuotedPaths \X DotTails}

TokPaths ==
    RawPaths \cup NumeralPaths \cup BadIndexPaths \cup KeyIndexPaths \cup QuotedPaths
    \cup QuotedThenDots \cup QuotedErrorPaths \cup BlankPaths
    \cup DocPaths

InitTok ==
    /\ root = EmptyObject
    /\ pre = root
    /\ path \in TokPaths
    /\ op = "init"
    /\ val = Null
    /\ ret = [status |-> "none", loc |-> <<>>]
    /\ log = <<>>
    /\ size_max \in {ULLMax, SizeMax32}
    /\ DumpIdle
    /\ SimpleIdle

NextTok == Tokenize

SpecTok == InitTok /\ [][NextTok]_vars

(***************************************************************************)
(* dump_file(path, j), one action per file-system call.  Each call either  *)
(* succeeds or fails, as the file system decides; the process may stop     *)
(* between any two calls.  j is root.                                      *)
(***************************************************************************)
\* Documents the destination may hold before the call.
PrevDocs == {EmptyObject, Obj(Member(kA, Num(5)))}

jsonVars == <<root, pre, path, op, val, ret, log, size_max>>

InitDump ==
    /\ root \in InitTrees
    /\ pre = root
    /\ path = <<>>
    /\ op = "dump_file"
    /\ val = Null
    /\ ret = [status |-> "none", loc |-> <<>>]
    /\ log = <<>>
    /\ size_max = ULLMax
    /\ prev \in {NoFile} \cup {File(d, TRUE) : d \in PrevDocs}
    /\ dest = prev
    /\ tmp = NoFile
    /\ pc = "open"
    /\ ec = FALSE
    /\ ec2 = FALSE
    /\ SimpleIdle

\* std::ofstream ofs(tmp, binary | trunc); if (!ofs) throw.
DumpOpen ==
    /\ pc = "open"
    /\ \E ok \in BOOLEAN :
          IF ok THEN tmp' = File(root, FALSE) /\ pc' = "write"
          ELSE tmp' = tmp /\ pc' = "thrown"
    /\ UNCHANGED <<dest, prev, ec, ec2>>
    /\ UNCHANGED jsonVars
    /\ UNCHANGED simpleVars

\* j.dump, ofs.write, ofs.flush; on failure the handler removes the temp
\* file (best effort) and rethrows.
DumpWrite ==
    /\ pc = "write"
    /\ \E ok \in BOOLEAN, removed \in BOOLEAN :
          IF ok THEN tmp' = File(root, TRUE) /\ pc' = "exists"
          ELSE tmp' = (IF removed THEN NoFile ELSE tmp) /\ pc' = "thrown"
    /\ UNCHANGED <<dest, prev, ec, ec2>>
    /\ UNCHANGED jsonVars
    /\ UNCHANGED simpleVars

\* if (fs::exists(path, ec))
DumpExists ==
    /\ pc = "exists"
    /\ pc' = IF dest.state = "file" THEN "remove" ELSE "rename"
    /\ UNCHANGED <<dest, tmp, prev, ec, ec2>>
    /\ UNCHANGED jsonVars
    /\ UNCHANGED simpleVars

\* fs::remove(path, ec); // best-effort
DumpRemove ==
    /\ pc = "remove"
    /\ \E ok \in BOOLEAN :
          /\ dest' = IF ok THEN NoFile ELSE dest
          /\ ec' = ~ok
    /\ pc' = "rename"
    /\ UNCHANGED <<tmp, prev, ec2>>
    /\ UNCHANGED jsonVars
    /\ UNCHANGED simpleVars

\* fs::rename(tmp, path, ec); if (ec) { fallback }.
DumpRename ==
    /\ pc = "rename"
    /\ \E ok \in BOOLEAN :
          IF ok THEN dest' = tmp /\ tmp' = NoFile /\ ec' = FALSE /\ pc' = "returned"
          ELSE dest' = dest /\ tmp' = tmp /\ ec' = TRUE /\ pc' = "copy"
    /\ UNCHANGED <<prev, ec2>>
    /\ UNCHANGED jsonVars
    /\ UNCHANGED simpleVars

\* fs::copy_file(tmp, path, overwrite_existing, ec2): the destination is
\* opened and truncated, or the call fails before touching it.
DumpCopyBegin ==
    /\ pc = "copy"
    /\ \E ok \in BOOLEAN :
          IF ok THEN dest' = File(tmp.doc, FALSE) /\ ec2' = ec2 /\ pc' = "copying"
          ELSE dest' = dest /\ ec2' = TRUE /\ pc' = "rmtmp"
    /\ UNCHANGED <<tmp, prev, ec>>
    /\ UNCHANGED jsonVars
    /\ UNCHANGED simpleVars

\* fs::copy_file, the rest: the content is written, or the write fails.
DumpCopyEnd ==
    /\ pc = "copying"
    /\ \E ok \in BOOLEAN :
          IF ok THEN dest' = File(tmp.doc, TRUE) /\ ec2' = FALSE
          ELSE dest' = dest /\ ec2' = TRUE
    /\ pc' = "rmtmp"
    /\ UNCHANGED <<tmp, prev, ec>>
    /\ UNCHANGED jsonVars
    /\ UNCHANGED simpleVars

\* fs::remove(tmp, ec2); if (ec2) throw.  The call sets ec2 anew.
DumpRemoveTmp ==
    /\ pc = "rmtmp"
    /\ \E ok \in BOOLEAN :
          /\ tmp' = IF ok THEN NoFile ELSE tmp
          /\ ec2' = ~ok
          /\ pc' = IF ok THEN "returned" ELSE "thrown"
    /\ UNCHANGED <<dest, prev, ec>>
    /\ UNCHANGED jsonVars
    /\ UNCHANGED simpleVars

\* The process stops (killed, power loss) between two calls.
DumpStop ==
    /\ pc \in {"open", "write", "exists", "remove", "rename", "copy", "copying", "rmtmp"}
    /\ pc' = "stopped"
    /\ UNCHANGED <<dest, tmp, prev, ec, ec2>>
    /\ UNCHANGED jsonVars
    /\ UNCHANGED simpleVars

NextDump ==
    \/ DumpOpen
    \/ DumpWrite
    \/ DumpExists
    \/ DumpRemove
    \/ DumpRename
    \/ DumpCopyBegin
    \/ DumpCopyEnd
    \/ DumpRemoveTmp
    \/ DumpStop

SpecDump == InitDump /\ [][NextDump]_vars

(***************************************************************************)
(* kvs (Simple.hpp): a JSON object stored flat as key0, value0, key1,      *)
(* value1, ...  Positions are 0-based as in the code; tokens are the       *)
(* records of the JSON values above.                                       *)
(***************************************************************************)
MaxFlat == 4

token_is_key_string(t) == t.t = "string"

npos == SizeMax

RECURSIVE FindKeyLoopLast(_, _, _, _)
FindKeyLoopLast(f, key, i, found) ==
    IF i + 1 < Len(f)
    THEN FindKeyLoopLast(f, key, i + 2,
            IF token_is_key_string(CharAt(f, i)) /\ CharAt(f, i).s = key THEN i ELSE found)
    ELSE found

find_key_index_last(f, key) == FindKeyLoopLast(f, key, 0, npos)

\* for (i = 0; i + 1 < n; i += 2)
RECURSIVE FindKeyLoop(_, _, _)
FindKeyLoop(f, key, i) ==
    IF i + 1 < Len(f)
    THEN IF token_is_key_string(CharAt(f, i)) /\ CharAt(f, i).s = key
         THEN i
         ELSE FindKeyLoop(f, key, i + 2)
    ELSE npos

find_key_index(f, key) == FindKeyLoop(f, key, 0)

contains(f, key) == find_key_index(f, key) # npos

NullTokenPtr == [status |-> "nullptr"]
\* &flat[i]
TokenPtr(i) == [status |-> "ptr", at |-> i]

get_ptr(f, key) ==
    LET i == find_key_index(f, key)
    IN  IF i = npos THEN NullTokenPtr ELSE TokenPtr(i + 1)

\* *p = value
StoreAt(f, i, value) == [f EXCEPT ![i + 1] = value]

\* kvs::operator[]: the storage afterwards and the reference returned.
kvs_index(f, key) ==
    LET p == get_ptr(f, key)
    IN  IF p # NullTokenPtr THEN [flat |-> f, ret |-> p]
        ELSE [flat |-> f \o <<Str(key), Null>>, ret |-> TokenPtr(Len(f) + 1)]

kvs_set(f, key, value) ==
    LET p == get_ptr(f, key)
    IN  IF p # NullTokenPtr THEN StoreAt(f, p.at, value)
        ELSE f \o <<Str(key), value>>

push_pair(f, key_token, value_token) == f \o <<key_token, value_token>>

kvs_erase(f, key) ==
    LET i == find_key_index(f, key)
    IN  IF i = npos THEN [flat |-> f, ret |-> FALSE]
        ELSE [flat |-> SubSeq(f, 1, i) \o SubSeq(f, i + 3, Len(f)), ret |-> TRUE]

KvsKeys == {kA, kB}
\* Tokens a kvs is constructed from, and values stored later.
KvsTokens == {Str(kA), Str(kB), Num(1)}
KvsValues == {Num(1), Str(kA)}

RECURSIVE TokenLists(_)
TokenLists(n) ==
    IF n = 0 THEN {<<>>}
    ELSE LET shorter == TokenLists(n - 1)
         IN  shorter \cup {Append(l, t) : l \in {x \in shorter : Len(x) = n - 1}, t \in KvsTokens}

\* kvs(std::initializer_list<token> list) : flat(list)
InitKvs ==
    /\ root = EmptyObject
    /\ pre = root
    /\ path = <<>>
    /\ op = "kvs"
    /\ val = Null
    /\ ret = [status |-> "none", loc |-> <<>>]
    /\ log = <<>>
    /\ size_max = ULLMax
    /\ DumpIdle
    /\ flat \in TokenLists(MaxFlat)
    /\ elems = <<>>
    /\ spre = flat
    /\ sop = NoCall
    /\ sret = [status |-> "none"]

KvsFrame == UNCHANGED <<jsonVars, dumpVars, elems>>

KvsGetPtr(key) ==
    /\ sop' = [NoCall EXCEPT !.name = "get_ptr", !.key = key]
    /\ sret' = get_ptr(flat, key)
    /\ spre' = flat
    /\ flat' = flat
    /\ KvsFrame

KvsIndex(key) ==
    /\ contains(flat, key) \/ Len(flat) < MaxFlat
    /\ sop' = [NoCall EXCEPT !.name = "operator[]", !.key = key]
    /\ sret' = kvs_index(flat, key).ret
    /\ spre' = flat
    /\ flat' = kvs_index(flat, key).flat
    /\ KvsFrame

KvsSet(key, value) ==
    /\ contains(flat, key) \/ Len(flat) < MaxFlat
    /\ sop' = [NoCall EXCEPT !.name = "set", !.key = key, !.value = value]
    /\ sret' = [status |-> "void"]
    /\ spre' = flat
    /\ flat' = kvs_set(flat, key, value)
    /\ KvsFrame

KvsPushPair(key_token, value) ==
    /\ Len(flat) < MaxFlat
    /\ sop' = [NoCall EXCEPT !.name = "push_pair", !.value = value]
    /\ sret' = [status |-> "void"]
    /\ spre' = flat
    /\ flat' = push_pair(flat, key_token, value)
    /\ KvsFrame

KvsErase(key) ==
    /\ sop' = [NoCall EXCEPT !.name = "erase", !.key = key]
    /\ sret' = [status |-> IF kvs_erase(flat, key).ret THEN "true" ELSE "false"]
    /\ spre' = flat
    /\ flat' = kvs_erase(flat, key).flat
    /\ KvsFrame

NextKvs ==
    \/ \E k \in KvsKeys : KvsGetPtr(k)
    \/ \E k \in KvsKeys : KvsIndex(k)
    \/ \E k \in KvsKeys, v \in KvsValues : KvsSet(k, v)
    \/ \E t \in KvsTokens, v \in KvsValues : KvsPushPair(t, v)
    \/ \E k \in KvsKeys : KvsErase(k)

SpecKvs == InitKvs /\ [][NextKvs]_vars

(***************************************************************************)
(* array_t (Simple.hpp): ensure(idx).  idx + 1 is computed in std::size_t; *)
(* resize beyond max_size() throws length_error; elems[idx] past the end   *)
(* is undefined behaviour, which a build turns into a crash or into a      *)
(* reference outside the array.                                            *)
(***************************************************************************)
MaxElems == 3

\* elems.resize(n, token(nullptr))
resize(e, n) ==
    IF n > VecMaxSize THEN [elems |-> e, thrown |-> TRUE]
    ELSE [elems |-> [k \in 1..n |-> IF k <= Len(e) THEN e[k] ELSE Null], thrown |-> FALSE]

\* idx + 1 in std::size_t.
ensure_size(idx) == (idx + 1) % (SizeMax + 1)

UBOutcomes == {"crash", "wild_reference"}

\* array_t::ensure: the elements afterwards and the results the call can have.
ensure(e, idx) ==
    LET r == IF Len(e) <= idx THEN resize(e, ensure_size(idx))
             ELSE [elems |-> e, thrown |-> FALSE]
    IN  [elems |-> r.elems,
         rets  |-> IF r.thrown THEN {[status |-> "throw"]}
                   ELSE IF idx < Len(r.elems) THEN {[status |-> "ref", at |-> idx]}
                   ELSE {[status |-> u] : u \in UBOutcomes}]

RECURSIVE ElemLists(_)
ElemLists(n) ==
    IF n = 0 THEN {<<>>}
    ELSE LET shorter == ElemLists(n - 1)
         IN  shorter \cup {Append(l, t) : l \in {x \in shorter : Len(x) = n - 1},
                                           t \in {Num(1), Str(kA), Null}}

InitArr ==
    /\ root = EmptyArray
    /\ pre = root
    /\ path = <<>>
    /\ op = "array_t"
    /\ val = Null
    /\ ret = [status |-> "none", loc |-> <<>>]
    /\ log = <<>>
    /\ size_max = ULLMax
    /\ DumpIdle
    /\ flat = <<>>
    /\ elems \in ElemLists(MaxElems)
    /\ spre = elems
    /\ sop = NoCall
    /\ sret = [status |-> "none"]

ArrEnsure(idx) ==
    /\ sret.status \in {"none", "ref"}
    /\ sop' = [NoCall EXCEPT !.name = "ensure", !.idx = idx]
    /\ sret' \in ensure(elems, idx).rets
    /\ spre' = elems
    /\ elems' = ensure(elems, idx).elems
    /\ UNCHANGED <<jsonVars, dumpVars, flat>>

NextArr == \E idx \in 0..SizeMax : ArrEnsure(idx)

SpecArr == InitArr /\ [][NextArr]_vars

(***************************************************************************)
(* Definitions used to state the properties.                               *)
(***************************************************************************)
pA == <<"a">>
pAB == <<"a", ".", "b">>
pA2 == <<"a", "[", "2", "]">>
pAB2 == <<"a", ".", "b", "[", "2", "]">>
pA0B == <<"a", "[", "0", "]", ".", "b">>
pUsers0Email == <<"u", "s", "e", "r", "s", "[", "0", "]", ".", "e", "m", "a", "i", "l">>
pComplexKeyValue ==
    <<"[", "\"", "c", "o", "m", "p", "l", "e", "x", ".", "k", "e", "y", "\"", "]",
      ".", "v", "a", "l", "u", "e">>

Tokenizes(p) == tokenize_path_nothrow(p).ok
TokensOf(p) == tokenize_path_nothrow(p).toks

\* The node a token sequence selects in a tree, walking down from the node
\* itself, or Absent when some step finds no such child.
Absent == [t |-> "absent"]

RECURSIVE Reach(_, _)
Reach(node, toks) ==
    IF toks = <<>> THEN node
    ELSE LET t == Head(toks)
         IN  IF t.kind = "Key"
             THEN IF node.t = "object" /\ t.key \in DOMAIN node.o
                  THEN Reach(node.o[t.key], Tail(toks)) ELSE Absent
             ELSE IF node.t = "array" /\ Len(node.a) > t.index
                  THEN Reach(node.a[t.index + 1], Tail(toks)) ELSE Absent

\* n elements, all null.
Nulls(n) == [k \in 1..n |-> Null]

Max(x, y) == IF x >= y THEN x ELSE y

\* The last call was a write traversal (get_or_create or set) that ran its loop.
WriteCall == op \in {"jget_nonconst", "jset"}

\* The node that iteration i of the last write traversal left under its
\* cursor, as it stood right after the traversal (before the assignment of set):
\* later iterations only change what lies below the child they move to.
CursorNode(i) == Reach(root, SubSeq(TokensOf(path), 1, i - 1))

\* C1: after set(root, path, v) returns true, the read-only get(root, path)
\* finds a node, and that node's value is v.
C1_SetGetRoundTrip ==
    (op = "jset" /\ ret.status = "true") =>
        LET g == jget_const(root, path)
        IN  g.status = "node" /\ NodeAt(root, g.loc) = val

\* C1 witness: set on {} with a.b[2] and "x" returned true and get reads "x".
C1_Witness ==
    /\ op = "jset" /\ ret.status = "true"
    /\ pre = EmptyObject /\ path = pAB2 /\ val = Str("x")
    /\ jget_const(root, path).status = "node"

\* C2: the read-only get leaves the tree exactly as it was, for every tree
\* and every path, well-formed or not, present or absent.
C2_GetLeavesTree == op = "jget_const" => root = pre

\* C2 witness: get on {"a":[1,2]} with an index past the end returned absent.
C2_Witness ==
    /\ op = "jget_const" /\ ret.status = "nullptr"
    /\ pre = Obj(Member(kA, Arr(<<Num(1), Num(2)>>))) /\ path = pA2

\* C3: the read-only get returns a node exactly when the path tokenizes and
\* every token, in order from the root, finds its child (a Key an object that
\* has the key, an Index an array longer than the index); the node returned
\* is the one the last step reaches; otherwise the result is absent, never
\* an error.
C3_GetFindsExactlyWalkable ==
    op = "jget_const" =>
        /\ ret.status \in {"node", "nullptr"}
        /\ ret.status = "node" <=>
               (Tokenizes(path) /\ Reach(pre, TokensOf(path)) # Absent)
        /\ ret.status = "node" =>
               NodeAt(pre, ret.loc) = Reach(pre, TokensOf(path))

\* C3 witness: a node found two steps below the root.
C3_Witness ==
    /\ op = "jget_const" /\ ret.status = "node"
    /\ Len(ret.loc) = 2 /\ NodeAt(pre, ret.loc) = Num(1)

\* C4: set returns false exactly when the path fails tokenization.
C4_SetFalseIffSyntaxError ==
    op = "jset" => (ret.status = "false" <=> ~Tokenizes(path))

\* C5: a Key step of the write traversal replaces a node that is not an
\* object by an empty object, keeps an object's members, inserts the key
\* with a null value when it is absent, and moves the cursor to that member;
\* set on {"a":5} with a.b and 1 yields {"a":{"b":1}}.
C5_KeyStep ==
    /\ WriteCall =>
        \A i \in 1..Len(log) :
            LET e == log[i]
                base == IF e.before.t = "object" THEN e.before.o ELSE <<>>
                k == e.tok.key
            IN  e.tok.kind = "Key" =>
                    /\ ~e.thrown
                    /\ e.after.t = "object"
                    /\ DOMAIN e.after.o = (DOMAIN base) \cup {k}
                    /\ \A x \in DOMAIN base : e.after.o[x] = base[x]
                    /\ k \notin DOMAIN base => e.after.o[k] = Null
                    /\ op = "jget_nonconst" =>
                           /\ CursorNode(i).t = "object"
                           /\ DOMAIN CursorNode(i).o = DOMAIN e.after.o
                           /\ ret.status = "node" => ret.loc[i] = e.tok
    /\ (op = "jset" /\ pre = Obj(Member(kA, Num(5))) /\ path = pAB /\ val = Num(1)) =>
           root = Obj(Member(kA, Obj(Member(kB, Num(1)))))

\* C5 witness: a Key step met a number and replaced it by an object.
C5_Witness ==
    /\ op = "jset" /\ pre = Obj(Member(kA, Num(5))) /\ path = pAB /\ val = Num(1)
    /\ Len(log) = 2 /\ log[2].before = Num(5) /\ log[2].tok.kind = "Key"

C8_GetOrCreateIdempotent ==
    (op = "jget_nonconst" /\ ret.status = "node") =>
        LET again == jget_mutable(root, path)
        IN  again.j = root /\ again.ret = ret

\* C8 witness: the first call created structure (the tree changed).
C8_Witness ==
    /\ op = "jget_nonconst" /\ ret.status = "node"
    /\ root # pre /\ path = pAB2

\* C9: a '.' directly after a closing ']' is a separator: users[0].email
\* tokenizes to Key(users), Index(0), Key(email), and ["complex.key"].value
\* to Key(complex.key), Key(value).
C9_DotAfterBracket ==
    op = "tokenize_path" =>
        /\ path = pUsers0Email =>
               /\ ret.status = "tokens"
               /\ ret.toks = <<KeyToken(<<"u", "s", "e", "r", "s">>), IndexToken(0),
                               KeyToken(<<"e", "m", "a", "i", "l">>)>>
        /\ path = pComplexKeyValue =>
               /\ ret.status = "tokens"
               /\ ret.toks = <<KeyToken(<<"c", "o", "m", "p", "l", "e", "x", ".",
                                          "k", "e", "y">>),
                               KeyToken(<<"v", "a", "l", "u", "e">>)>>

\* C10: jget(j, path) on a Json that is not const returns nullptr when the
\* path is absent from j, and leaves j unchanged.
C10_LookupOnNonConstIsReadOnly ==
    (op = "jget_nonconst" /\ Tokenizes(path) /\ Reach(pre, TokensOf(path)) = Absent) =>
        (ret.status = "nullptr" /\ root = pre)

\* The first position of character c in s, or 0 when s has none.
FirstPos(s, c) ==
    IF \E i \in 1..Len(s) : s[i] = c
    THEN CHOOSE i \in 1..Len(s) : s[i] = c /\ \A k \in 1..(i - 1) : s[k] # c
    ELSE 0

\* The pieces of s between its dots.
RECURSIVE SplitDots(_)
SplitDots(s) ==
    LET d == FirstPos(s, ".")
    IN  IF d = 0 THEN <<s>>
        ELSE <<SubSeq(s, 1, d - 1)>> \o SplitDots(SubSeq(s, d + 1, Len(s)))

IsNumeral(s) == s # <<>> /\ \A i \in 1..Len(s) : \E d \in 0..9 : s[i] = DigitChar(d)

\* The number a decimal numeral denotes.
RECURSIVE NumeralValue(_)
NumeralValue(s) ==
    IF s = <<>> THEN 0
    ELSE 10 * NumeralValue(SubSeq(s, 1, Len(s) - 1))
         + (CHOOSE d \in 0..9 : s[Len(s)] = DigitChar(d))

pUserRoles1 == <<"u", "s", "e", "r", ".", "r", "o", "l", "e", "s", "[", "1", "]">>

\* C11: a path k1.k2. ... .kn[i], with every ki a non-empty key without '.'
\* or '[' and i an index of the index type written in decimal, tokenizes to
\* Key(k1), ..., Key(kn), Index(i) in that order.
C11_KeysThenIndex ==
    op = "tokenize_path" =>
        LET lb   == FirstPos(path, "[")
            keys == SplitDots(SubSeq(path, 1, lb - 1))
            body == SubSeq(path, lb + 1, Len(path) - 1)
        IN  ( /\ lb > 1
              /\ path[Len(path)] = "]"
              /\ IsNumeral(body)
              /\ NumeralValue(body) <= size_max
              /\ \A i \in 1..Len(keys) : keys[i] # <<>> )
            => /\ ret.status = "tokens"
               /\ ret.toks = [i \in 1..(Len(keys) + 1) |->
                                IF i <= Len(keys) THEN KeyToken(keys[i])
                                ELSE IndexToken(NumeralValue(body))]

C11_Witness ==
    /\ op = "tokenize_path"
    /\ path = pUserRoles1
    /\ ret.status = "tokens"
    /\ ret.toks = <<KeyToken(<<"u", "s", "e", "r">>), KeyToken(<<"r", "o", "l", "e", "s">>),
                    IndexToken(1)>>

IsBareKey(k) == k # <<>> /\ \A i \in 1..Len(k) : k[i] \notin {".", "["}

\* C12: a bracket whose first non-blank character is '"' yields Key(decoded),
\* where the quoted text is copied literally except that a backslash and the
\* character after it stand for that character; blanks may follow '[' and
\* precede ']'.  The key is the one a bare key of the same text gives, so
\* a["b"] and a.b tokenize identically.
C12_QuotedKey ==
    (op = "tokenize_path" /\ path \in QuotedPaths) =>
        \A c \in QuotedCases :
            c.path = path =>
                /\ ret.status = "tokens"
                /\ ret.toks = (IF c.head = <<>> THEN <<>> ELSE <<KeyToken(c.head)>>)
                               \o <<KeyToken(c.key)>>
                /\ (c.head # <<>> /\ IsBareKey(c.key))
                   => ret.toks = TokensOf(c.head \o <<".">> \o c.key)

C12_Witness ==
    /\ op = "tokenize_path"
    /\ path = <<"a", "[", " ", "\"", "\\", "\"", ".", "\"", "\t", " ", "]">>
    /\ ret.status = "tokens"
    /\ ret.toks = <<KeyToken(<<"a">>), KeyToken(<<"\"", ".">>)>>

\* Two consecutive dots after a complete quoted-key bracket.
QuotedThenDotDot == {x[1] \o x[2] : x \in QuotedPaths \X {<<".", ".">>, <<".", ".", "a">>}}

EmptyKeySegment == ret.status = "throw" /\ ret.err = "empty key segment"

\* No quoted-key bracket opens before position i of the path: no '[' followed,
\* after blanks, by '"'.
NoQuotedKeyBefore(i) ==
    ~ \E b \in 1..(i - 1) : \E q \in (b + 1)..(i - 1) :
          /\ path[b] = "["
          /\ path[q] = "\""
          /\ \A k \in (b + 1)..(q - 1) : IsSpace(path[k])

\* C13: a path that starts with '.', or has two consecutive '.' outside a
\* quoted key, fails tokenization and yields no tokens; the error is "empty
\* key segment" whenever the dots are not inside an index bracket (there
\* another syntax error is reported first).
C13_EmptyKeySegment ==
    op = "tokenize_path" =>
        /\ (path # <<>> /\ path[1] = ".") => EmptyKeySegment
        /\ \A i \in 1..(Len(path) - 1) :
               (path[i] = "." /\ path[i + 1] = "." /\ NoQuotedKeyBefore(i))
               => /\ ret.status = "throw"
                  /\ (\A b \in 1..(i - 1) : path[b] # "[") => EmptyKeySegment
        /\ path \in QuotedThenDotDot => EmptyKeySegment

C13_Witness ==
    /\ op = "tokenize_path"
    /\ path = <<"a", ".", ".", "a">>
    /\ EmptyKeySegment

\* C14: a path that ends with a '.' outside a quoted key fails tokenization
\* with the error "empty key segment".
C14_TrailingDot ==
    (op = "tokenize_path" /\ path # <<>> /\ path[Len(path)] = "."
        /\ NoQuotedKeyBefore(Len(path)))
    => ret.status = "throw"

\* The '[' at position b opens the index form: the first non-blank character
\* after it, if any, is not '"'.
IndexForm(b) ==
    \A q \in (b + 1)..Len(path) :
        (\A k \in (b + 1)..(q - 1) : IsSpace(path[k])) /\ ~IsSpace(path[q])
        => path[q] # "\""

\* C15: a path with an index-form '[' that no ']' follows fails tokenization,
\* and tokenize_path returns no tokens at all, the ones parsed before the
\* bracket included.
C15_UnterminatedBracket ==
    op = "tokenize_path" =>
        \A b \in 1..Len(path) :
            ( /\ path[b] = "["
              /\ IndexForm(b)
              /\ NoQuotedKeyBefore(b)
              /\ \A k \in (b + 1)..Len(path) : path[k] # "]" )
            => /\ ret.status = "throw"
               /\ "toks" \notin DOMAIN ret

C15_Witness ==
    /\ op = "tokenize_path"
    /\ path = <<"a", "[", "1">>
    /\ ret.status = "throw"
    /\ ret.err = "missing closing ]"
    /\ tokenize_path_nothrow(path).toks = <<KeyToken(<<"a">>)>>

\* s without its leading and trailing blanks.
RECURSIVE TrimBlanks(_)
TrimBlanks(s) ==
    IF s = <<>> THEN s
    ELSE IF IsSpace(s[1]) THEN TrimBlanks(Tail(s))
    ELSE IF IsSpace(s[Len(s)]) THEN TrimBlanks(SubSeq(s, 1, Len(s) - 1))
    ELSE s

\* The path is one index-form bracket, alone or after a bare key, closed at
\* the end of the path.
SingleIndexBracket ==
    LET lb == FirstPos(path, "[")
    IN  /\ lb > 0
        /\ lb > 1 => IsBareKey(SubSeq(path, 1, lb - 1))
        /\ IndexForm(lb)
        /\ FirstPos(path, "]") = Len(path)

BracketBody == SubSeq(path, FirstPos(path, "[") + 1, Len(path) - 1)

\* C16 as stated: the bracket is accepted if and only if its body is blanks,
\* digits, blanks, and the token is then Index(n), n the value of the digits.
C16_IndexBodyIff ==
    (op = "tokenize_path" /\ SingleIndexBracket) =>
        /\ ret.status = "tokens" <=> IsNumeral(TrimBlanks(BracketBody))
        /\ ret.status = "tokens"
           => ret.toks[Len(ret.toks)] = IndexToken(NumeralValue(TrimBlanks(BracketBody)))

\* C16 amended: the bracket is accepted if and only if its body is blanks,
\* digits, blanks and the digits' value does not exceed the largest unsigned
\* long long; the token is then an Index token, carrying that value whenever
\* the value fits the index type.
C16_IndexBodyIffInRange ==
    (op = "tokenize_path" /\ SingleIndexBracket) =>
        LET digits == TrimBlanks(BracketBody)
        IN  /\ ret.status = "tokens" <=> (IsNumeral(digits) /\ NumeralValue(digits) <= ULLMax)
            /\ ret.status = "tokens"
               => /\ ret.toks[Len(ret.toks)].kind = "Index"
                  /\ NumeralValue(digits) <= size_max
                     => ret.toks[Len(ret.toks)] = IndexToken(NumeralValue(digits))

C16_Witness ==
    /\ op = "tokenize_path"
    /\ path = <<"a", "[", "\t", " ", "0", "1", " ", "]">>
    /\ ret.status = "tokens"
    /\ ret.toks = <<KeyToken(<<"a">>), IndexToken(1)>>

\* C17: an index literal whose value does not fit the index type is rejected,
\* never wrapped or truncated: every Index token carries exactly the value
\* written in the path.
C17_OutOfRangeRejected ==
    (op = "tokenize_path" /\ SingleIndexBracket /\ IsNumeral(TrimBlanks(BracketBody))) =>
        LET n == NumeralValue(TrimBlanks(BracketBody))
        IN  /\ n > size_max => ret.status = "throw"
            /\ ret.status = "tokens" => ret.toks[Len(ret.toks)].index = n

\* C18: in the quoted-key form a backslash at the end of the path, a missing
\* closing quote (also when the path ends with an escaped quote) and a
\* closing quote not followed, after blanks, by ']' are syntax errors.
C18_QuotedKeyErrors ==
    (op = "tokenize_path" /\ path \in QuotedErrorPaths) => ret.status = "throw"

C18_Witness ==
    /\ op = "tokenize_path"
    /\ path = <<"[", "\"", "a", "\\", "\"">>
    /\ path \in UnclosedQuotePaths
    /\ ret.status = "throw"

\* C19: the empty path denotes the root: it tokenizes to zero tokens, a
\* lookup returns the root itself, get-or-create returns the root and leaves
\* it unchanged, and a set returns true and replaces the whole root by v.
C19_EmptyPathIsRoot ==
    path = <<>> =>
        /\ op = "tokenize_path" => ret.status = "tokens" /\ ret.toks = <<>>
        /\ op = "jget_const" => ret = NodePtr(<<>>) /\ root = pre
        /\ op = "jget_nonconst" => ret = NodePtr(<<>>) /\ root = pre
        /\ op = "jset" => ret.status = "true" /\ ret.loc = <<>> /\ root = val

C19_Witness ==
    /\ path = <<>>
    /\ op = "jset"
    /\ ret.status = "true"
    /\ root = val
    /\ pre # val

\* C20: dump_file replaces the destination atomically: when the destination
\* held a document before the call, it holds, at every step of the call and
\* wherever the process stops, the complete previous document or the
\* complete new one; it is never missing and never partially written.
C20_AtomicReplace ==
    (op = "dump_file" /\ prev.state = "file") => dest \in {prev, File(root, TRUE)}

\* C21: dump_file throws whenever the final replacement fails, whatever the
\* removal of the temp file does: a call that returns normally has left the
\* complete new document at the destination.
C21_ReturnMeansReplaced ==
    (op = "dump_file" /\ pc = "returned") => dest = File(root, TRUE)

\* C22: after set(key, value) the lookup get_ptr(key) points to that value
\* and contains(key) is true; after operator[](key) on a missing key,
\* contains(key) is true and the value is null.  For every kvs the
\* constructors and builders can make.
C22_SetThenFound ==
    op = "kvs" =>
        /\ sop.name = "set"
           => /\ contains(flat, sop.key)
              /\ get_ptr(flat, sop.key) # NullTokenPtr
              /\ CharAt(flat, get_ptr(flat, sop.key).at) = sop.value
        /\ (sop.name = "operator[]" /\ ~contains(spre, sop.key))
           => /\ contains(flat, sop.key)
              /\ CharAt(flat, get_ptr(flat, sop.key).at) = Null

\* The pairs of f whose key is the string key, by the 0-based position of
\* the key token.
PairsOf(f, key) == {i \in 0..(Len(f) - 2) : i % 2 = 0 /\ f[i + 1] = Str(key)}

FirstPair(f, key) == CHOOSE i \in PairsOf(f, key) : \A k \in PairsOf(f, key) : i <= k

\* C23: with several pairs of the same key, get_ptr, operator[], set and
\* erase act on the pair at the lowest position and leave the later ones
\* as they are.
C23_FirstMatchWins ==
    (op = "kvs" /\ PairsOf(spre, sop.key) # {}) =>
        LET i == FirstPair(spre, sop.key)
        IN  /\ sop.name \in {"get_ptr", "operator[]"}
               => sret = TokenPtr(i + 1) /\ flat = spre
            /\ sop.name = "set" => flat = [spre EXCEPT ![i + 2] = sop.value]
            /\ sop.name = "erase"
               => /\ sret.status = "true"
                  /\ flat = [k \in 1..(Len(spre) - 2) |->
                               IF k <= i THEN spre[k] ELSE spre[k + 2]]

C23_Witness ==
    /\ op = "kvs"
    /\ sop.name = "erase"
    /\ sop.key = kA
    /\ spre = <<Str(kA), Num(1), Str(kA), Str(kB)>>
    /\ flat = <<Str(kA), Str(kB)>>

\* C24: a successful tokenization of a non-empty path yields at least one
\* token, and every Key token that comes from a bare run is non-empty and
\* holds neither '.' nor '[' (in a path without a quoted key every Key token
\* comes from a bare run).
C24_TokensWellFormed ==
    (op = "tokenize_path" /\ ret.status = "tokens" /\ path # <<>>) =>
        /\ Len(ret.toks) >= 1
        /\ NoQuotedKeyBefore(Len(path) + 1)
           => \A i \in 1..Len(ret.toks) :
                  ret.toks[i].kind = "Key" => IsBareKey(ret.toks[i].key)

C24_Witness ==
    /\ op = "tokenize_path"
    /\ path = <<"\"", ".", "a", "]">>
    /\ ret.status = "tokens"
    /\ ret.toks = <<KeyToken(<<"\"">>), KeyToken(<<"a", "]">>)>>

pBlanks == <<"a", " ", "b", ".", " ", "c">>

\* C25: whitespace outside brackets is key content: a path without brackets
\* tokenizes to the Keys of its dot-separated pieces exactly as written,
\* blanks included (a path of blanks only gives one Key of those blanks), and
\* a bare key before '[' keeps its blanks.
C25_BlanksAreKeyContent ==
    (op = "tokenize_path" /\ path # <<>>) =>
        /\ (FirstPos(path, "[") = 0 /\ \A i \in 1..Len(SplitDots(path)) : SplitDots(path)[i] # <<>>)
           => /\ ret.status = "tokens"
              /\ ret.toks = [i \in 1..Len(SplitDots(path)) |-> KeyToken(SplitDots(path)[i])]
        /\ (\A i \in 1..Len(path) : IsSpace(path[i]))
           => ret.status = "tokens" /\ ret.toks = <<KeyToken(path)>>
        /\ (SingleIndexBracket /\ FirstPos(path, "[") > 1 /\ ret.status = "tokens")
           => ret.toks[1] = KeyToken(SubSeq(path, 1, FirstPos(path, "[") - 1))

C25_Witness ==
    /\ op = "tokenize_path"
    /\ path = pBlanks
    /\ ret.status = "tokens"
    /\ ret.toks = <<KeyToken(<<"a", " ", "b">>), KeyToken(<<" ", "c">>)>>

\* C26: read and write traversal agree: when the lookup finds a node,
\* get-or-create leaves the tree unchanged and returns that node; and after a
\* successful get-or-create the lookup finds the node it returned.
C26_ReadWriteAgree ==
    (op = "jget_nonconst" /\ ret.status = "node") =>
        /\ jget_const(pre, path).status = "node"
           => root = pre /\ ret = jget_const(pre, path)
        /\ jget_const(root, path) = NodePtr(ret.loc)

C26_Witness ==
    /\ op = "jget_nonconst"
    /\ ret.status = "node"
    /\ Len(ret.loc) = 3
    /\ jget_const(pre, path).status = "node"
    /\ root = pre

\* Every location of a tree, as the token sequence that leads to it.
RECURSIVE Locs(_)
Locs(node) ==
    {<<>>} \cup
    (IF node.t = "object"
     THEN UNION {{<<KeyToken(k)>> \o l : l \in Locs(node.o[k])} : k \in DOMAIN node.o}
     ELSE IF node.t = "array"
     THEN UNION {{<<IndexToken(i - 1)>> \o l : l \in Locs(node.a[i])} : i \in 1..Len(node.a)}
     ELSE {})

IsPrefix(a, b) == Len(a) <= Len(b) /\ SubSeq(b, 1, Len(a)) = a

\* loc is neither on the path to the target nor below the target.
OffPath(loc, target) == ~IsPrefix(loc, target) /\ ~IsPrefix(target, loc)

\* No step of the last write traversal met a node of the wrong kind.
NoRepair ==
    \A i \in 1..Len(log) :
        IF log[i].tok.kind = "Key" THEN is_object(log[i].before) ELSE is_array(log[i].before)

\* C27: a set that repairs nothing changes only the target and adds Null
\* placeholders: every location off the path that existed keeps its value,
\* every new location off the path holds null, and a successful set leaves
\* v at the target.
C27_SetFrame ==
    (op = "jset" /\ Tokenizes(path) /\ NoRepair) =>
        LET target == TokensOf(path)
        IN  /\ \A loc \in Locs(pre) :
                   OffPath(loc, target) => Reach(root, loc) = Reach(pre, loc)
            /\ \A loc \in Locs(root) \ Locs(pre) :
                   OffPath(loc, target) => Reach(root, loc) = Null
            /\ ret.status = "true" => Reach(root, target) = val

C27_Witness ==
    /\ op = "jset"
    /\ NoRepair
    /\ ret.status = "true"
    /\ pre = Arr(<<Arr(<<Num(1)>>), Obj(Member(kA, Num(2)))>>)
    /\ Len(log) = 2
    /\ Len(root.a[1].a) = 3
    /\ root.a[1].a[2] = Null
    /\ root.a[2] = pre.a[2]

pABOpen == <<"a", ".", "b", "[">>

\* C28: a set or get-or-create that fails with a syntax error leaves the tree
\* exactly as it was, wherever in the path the error lies; set on {} with
\* a.b[ returns false and the root is still {}.
C28_SyntaxErrorLeavesTree ==
    (WriteCall /\ ~Tokenizes(path)) =>
        /\ root = pre
        /\ ret.status = (IF op = "jset" THEN "false" ELSE "throw")
        /\ log = <<>>

C28_Witness ==
    /\ op = "jset"
    /\ path = pABOpen
    /\ pre = EmptyObject
    /\ ret.status = "false"
    /\ root = EmptyObject
    /\ TokensOf(path) = <<KeyToken(kA), KeyToken(kB)>>

\* C29: the array-growth loop of the write traversal stops after appending
\* index + 1 - length elements, for every index the tokenizer accepts, the
\* largest included: no Index step ends in an exception, and the array then
\* has max(length, index + 1) elements.
C29_GrowthLoopStops ==
    WriteCall =>
        \A i \in 1..Len(log) :
            LET e == log[i]
                base == IF e.before.t = "array" THEN e.before.a ELSE <<>>
            IN  e.tok.kind = "Index" =>
                    /\ ~e.thrown
                    /\ Len(e.after.a) = Max(Len(base), e.tok.index + 1)

\* C30: array_t::ensure(idx) never shrinks the array: for every idx of the
\* index type the array afterwards has at least idx + 1 elements and at least
\* as many as before, its old elements are unchanged, the added ones are
\* null, and the reference returned is element idx (whenever the call does
\* not end in an allocation failure).
C30_EnsureNeverShrinks ==
    (op = "array_t" /\ sop.name = "ensure" /\ sret.status # "throw") =>
        /\ Len(elems) >= sop.idx + 1
        /\ Len(elems) >= Len(spre)
        /\ \A k \in 1..Len(spre) : k <= Len(elems) /\ elems[k] = spre[k]
        /\ \A k \in (Len(spre) + 1)..Len(elems) : elems[k] = Null
        /\ sret = [status |-> "ref", at |-> sop.idx]

====
